---- MODULE Spec2Model ----
(***************************************************************************)
(* Model of the industrial IoT monitoring pipeline: the two database       *)
(* connection classes (PostgreSQL and SQLite), the ESP32 simulator, the    *)
(* lag-feature preparation and train/test split of the ML trainer, and the *)
(* alert steps of the pipeline scripts.                                    *)
(*                                                                         *)
(* Conventions: SQL NULL / Python None is the number Null; generated ids   *)
(* (uuid4 on the client for SQLite, the column default for PostgreSQL) are *)
(* taken from a per-database counter, so every generated id is fresh.      *)
(***************************************************************************)
EXTENDS Integers, Sequences, FiniteSets, TLC

VARIABLES
    db,        \* per connection class: the connection and the database behind it
    active,    \* the connection objects the running script has constructed
    returned,  \* per connection: ids handed back by successful create_reading calls
    call,      \* the last operation: its arguments, return value and exception
    series,    \* the readings stored under one sensor name, as ORDER BY ts DESC returns them
    sim,       \* the ESP32Simulator object and the position of run_simulation
    now,       \* the clock, in the time unit of the specification that advances it
    trainer    \* the MLModelTrainer object: the keys of its models dict

vars == <<db, active, returned, call, series, sim, now, trainer>>
dbVars == <<db, active, returned>>

(***************************************************************************)
(* Bounds of the model.                                                    *)
(***************************************************************************)
MaxNewRows == 2     \* rows a behaviour may add to one database
MaxTs == 2          \* timestamps offered to create_reading: 1..MaxTs
MaxReadings == 13   \* readings stored under the sensor name the trainer is given
MaxOutOfOrder == 1  \* readings inserted with a timestamp that is not the newest
MaxClock == 30      \* run_simulation is not started after this second
MaxAlertReadings == 2   \* readings stored before the alert steps run
MaxAlertRows == 2       \* an alert step is not started with this many alerts stored
MaxDay == 1             \* the clock of the DatabaseConnection steps stops here

Null == -1
NoSuchId == 0       \* an id argument that names no row

Conns == {"pg", "sqlite"}
TableNames == {"asset", "sensor", "reading", "alert", "prediction"}

Min(a, b) == IF a < b THEN a ELSE b
Max(a, b) == IF a > b THEN a ELSE b

(***************************************************************************)
(* Schema and initial rows.                                                *)
(***************************************************************************)
EmptyTables ==
    [asset |-> {}, sensor |-> {}, reading |-> {}, alert |-> {}, prediction |-> {}]

\* SQLiteConnection._insert_initial_data on an empty asset table.
SqliteInitialTables ==
    [EmptyTables EXCEPT
        !.asset = {[id |-> 1, name |-> "Linha de Producao Principal"]},
        !.sensor = {[id |-> 2, asset_id |-> 1, name |-> "S_TEMP"],
                    [id |-> 3, asset_id |-> 1, name |-> "S_HUMIDITY"],
                    [id |-> 4, asset_id |-> 1, name |-> "S_LIGHT"],
                    [id |-> 5, asset_id |-> 1, name |-> "S_VIBRATION"]}]

\* setup_database.insert_initial_data: the rows a PostgreSQL database holds
\* before any DatabaseConnection is constructed.
PgInitialTables ==
    [EmptyTables EXCEPT
        !.asset = {[id |-> 1, name |-> "Linha de Producao 1"]},
        !.sensor = {[id |-> 2, asset_id |-> 1, name |-> "S_TEMP"],
                    [id |-> 3, asset_id |-> 1, name |-> "S_HUMIDITY"],
                    [id |-> 4, asset_id |-> 1, name |-> "S_VIBRATION"],
                    [id |-> 5, asset_id |-> 1, name |-> "S_LIGHT"]}]

FirstFreeId == 6    \* first id the counter hands out after the initial rows

\* Numeric columns declared NOT NULL in SQLiteConnection.create_tables. (The
\* text columns name, type, unit and alert_type are NOT NULL too; every caller
\* passes a string for them, so they never decide an INSERT.)
NotNullColumns(table) ==
    CASE table = "asset" -> {}
      [] table = "sensor" -> {"asset_id"}
      [] table = "reading" -> {"sensor_id", "ts", "value"}
      [] table = "alert" -> {"sensor_id"}
      [] table = "prediction" -> {"sensor_id", "predicted_value"}

\* The constraints the engine enforces on an INSERT. The FOREIGN KEY clauses of
\* create_tables are declared but sqlite3 leaves foreign-key enforcement off
\* unless PRAGMA foreign_keys = ON is issued, which the class never does; so
\* only NOT NULL and the CHECK on alert.severity reject a row.
ViolatesConstraint(table, row) ==
    \/ \E col \in NotNullColumns(table) : row[col] = Null
    \/ /\ table = "alert"
       /\ row.severity \notin {"low", "medium", "high", "critical", "NULL"}

(***************************************************************************)
(* execute_query.                                                          *)
(***************************************************************************)
\* cursor.execute(query, params) against the session's view of the tables.
CursorExecute(tables, stmt) ==
    CASE stmt.sql = "BAD" ->
            [exc |-> "ProgrammingError", tables |-> tables,
             description |-> FALSE, rows |-> <<>>]
      [] stmt.sql = "INSERT" ->
            IF ViolatesConstraint(stmt.table, stmt.row)
            THEN [exc |-> "IntegrityError", tables |-> tables,
                  description |-> FALSE, rows |-> <<>>]
            ELSE [exc |-> "none",
                  tables |-> [tables EXCEPT ![stmt.table] = @ \cup {stmt.row}],
                  description |-> stmt.returning,
                  rows |-> IF stmt.returning THEN <<stmt.row.id>> ELSE <<>>]
      [] stmt.sql = "DELETE" ->
            [exc |-> "none",
             tables |-> [tables EXCEPT ![stmt.table] = {r \in @ : ~stmt.where[r]}],
             description |-> FALSE, rows |-> <<>>]
      [] stmt.sql \in {"SELECT", "WITH"} ->
            [exc |-> "none", tables |-> tables,
             description |-> TRUE, rows |-> stmt.rows]

\* The test that decides between "return the rows" and "commit":
\* DatabaseConnection asks cursor.description, SQLiteConnection asks whether
\* the text starts with SELECT.
ReturnsRows(kind, stmt, cur) ==
    IF kind = "pg" THEN cur.description ELSE stmt.sql = "SELECT"

\* psycopg2 opens a transaction with the first statement after connect(),
\* commit() or rollback(), and PostgreSQL's NOW() is the start time of the
\* open transaction.  sqlite3 statements of the model never read the clock.
TransactionStart(kind, d) ==
    IF kind = "pg" /\ d.txn_start = Null THEN now ELSE d.txn_start

\* A variant of the except branch that re-raises without rolling back.
ExecuteQueryNoRollback(kind, d, stmt) ==
    LET cur == CursorExecute(d.working, stmt) IN
    IF cur.exc # "none"
    THEN [db |-> [d EXCEPT !.txn_start = TransactionStart(kind, d)], ret |-> <<>>,
          exc |-> cur.exc, stmt_exc |-> cur.exc, executions |-> 1]
    ELSE IF ReturnsRows(kind, stmt, cur)
    THEN [db |-> [d EXCEPT !.working = cur.tables,
                           !.txn_start = TransactionStart(kind, d)],
          ret |-> cur.rows, exc |-> "none", stmt_exc |-> "none", executions |-> 1]
    ELSE [db |-> [d EXCEPT !.working = cur.tables, !.committed = cur.tables,
                           !.txn_start = Null],
          ret |-> <<>>, exc |-> "none", stmt_exc |-> "none", executions |-> 1]

\* execute_query(query, params): one cursor.execute; on an exception rollback
\* and re-raise; otherwise fetchall() without commit, or commit and [].
ExecuteQuery(kind, d, stmt) ==
    LET cur == CursorExecute(d.working, stmt) IN
    IF cur.exc # "none"
    THEN [db |-> [d EXCEPT !.working = d.committed, !.txn_start = Null], ret |-> <<>>,
          exc |-> cur.exc, stmt_exc |-> cur.exc, executions |-> 1]
    ELSE IF ReturnsRows(kind, stmt, cur)
    THEN [db |-> [d EXCEPT !.working = cur.tables,
                           !.txn_start = TransactionStart(kind, d)],
          ret |-> cur.rows, exc |-> "none", stmt_exc |-> "none", executions |-> 1]
    ELSE [db |-> [d EXCEPT !.working = cur.tables, !.committed = cur.tables,
                           !.txn_start = Null],
          ret |-> <<>>, exc |-> "none", stmt_exc |-> "none", executions |-> 1]

Insert(kind, table, row) ==
    [sql |-> "INSERT", returning |-> (kind = "pg"), table |-> table,
     row |-> row, rows |-> <<>>]

\* The shape shared by create_asset, create_sensor, create_reading,
\* create_alert and create_prediction: a fresh id, one INSERT through
\* execute_query (INSERT ... RETURNING id for PostgreSQL), and the id returned
\* (result[0][0] for PostgreSQL, the uuid generated up front for SQLite).
CreateRow(kind, d, table, row) ==
    LET r == ExecuteQuery(kind, [d EXCEPT !.nextId = @ + 1], Insert(kind, table, row))
    IN  [db |-> r.db,
         ret |-> IF r.exc # "none" THEN Null
                 ELSE IF kind = "pg" THEN r.ret[1] ELSE row.id,
         exc |-> r.exc, stmt_exc |-> r.stmt_exc, executions |-> r.executions]

create_asset(kind, d, name) ==
    CreateRow(kind, d, "asset", [id |-> d.nextId, name |-> name])

create_sensor(kind, d, asset_id, name) ==
    CreateRow(kind, d, "sensor",
              [id |-> d.nextId, asset_id |-> asset_id, name |-> name])

\* A variant of create_reading that keeps one row per (sensor_id, ts, value):
\* a repeated call uses up an id, stores nothing and returns the id of the
\* row already there.
create_reading_idempotent(kind, d, sensor_id, ts, value) ==
    LET same == {r \in d.working.reading :
                    r.sensor_id = sensor_id /\ r.ts = ts /\ r.value = value}
    IN  IF same # {}
        THEN [db |-> [d EXCEPT !.nextId = @ + 1],
              ret |-> (CHOOSE r \in same : TRUE).id, exc |-> "none",
              stmt_exc |-> "none", executions |-> 1]
        ELSE CreateRow(kind, d, "reading",
                       [id |-> d.nextId, sensor_id |-> sensor_id, ts |-> ts,
                        value |-> value])

create_reading(kind, d, sensor_id, ts, value) ==
    CreateRow(kind, d, "reading",
              [id |-> d.nextId, sensor_id |-> sensor_id, ts |-> ts, value |-> value])

create_alert(kind, d, sensor_id, alert_type, threshold_value, actual_value, severity) ==
    CreateRow(kind, d, "alert",
              [id |-> d.nextId, sensor_id |-> sensor_id, alert_type |-> alert_type,
               threshold_value |-> threshold_value, actual_value |-> actual_value,
               severity |-> severity])

create_prediction(kind, d, sensor_id, predicted_value) ==
    CreateRow(kind, d, "prediction",
              [id |-> d.nextId, sensor_id |-> sensor_id,
               predicted_value |-> predicted_value])

(***************************************************************************)
(* Queries.                                                                *)
(***************************************************************************)
Perms(S) ==
    {f \in [1..Cardinality(S) -> S] :
        \A i, j \in 1..Cardinality(S) : i # j => f[i] # f[j]}

\* Every order in which ORDER BY may return the rows of S: non-decreasing in
\* key (a function of the row), rows with equal keys in any order.
OrderBy(S, key) ==
    {f \in Perms(S) : \A i \in 1..(Cardinality(S) - 1) : key[f[i]] <= key[f[i + 1]]}

\* A variant of the sort key that orders oldest first.
TsAsc(r) == r.ts

\* ORDER BY ts DESC
TsDesc(r) == 0 - r.ts

\* get_sensor_id_by_name: results[0][0] of SELECT id FROM sensor WHERE name = ?
SensorIdsByName(tables, name) ==
    LET hit == {s.id : s \in {x \in tables.sensor : x.name = name}}
    IN  IF hit = {} THEN {Null} ELSE hit

Limit(rows, n) == SubSeq(rows, 1, Min(n, Len(rows)))

\* SELECT ts, value FROM reading WHERE sensor_id = ? ORDER BY ts DESC LIMIT ?
SensorReadingsRows(tables, sensor_id, limit) ==
    LET hit == {r \in tables.reading : r.sensor_id = sensor_id}
    IN  {[i \in 1..Min(limit, Len(f)) |-> [ts |-> f[i].ts, value |-> f[i].value]] :
            f \in OrderBy(hit, [r \in hit |-> TsDesc(r)])}

NameRank(name) ==
    CASE name = "S_HUMIDITY" -> 1
      [] name = "S_LIGHT" -> 2
      [] name = "S_TEMP" -> 3
      [] name = "S_VIBRATION" -> 4

LatestTs(tables, sensor_id) ==
    CHOOSE t \in {r.ts : r \in {x \in tables.reading : x.sensor_id = sensor_id}} :
        \A r \in {x \in tables.reading : x.sensor_id = sensor_id} : r.ts <= t

\* WITH latest_readings AS (SELECT sensor_id, MAX(ts) ... GROUP BY sensor_id)
\* SELECT r.ts, r.value, s.name ... JOIN latest_readings ... JOIN sensor s
\* ORDER BY s.name
LatestReadingsRows(tables) ==
    LET joined == {[r |-> r, s |-> s] : r \in tables.reading, s \in tables.sensor}
        hit == {p \in joined : /\ p.r.sensor_id = p.s.id
                               /\ p.r.ts = LatestTs(tables, p.r.sensor_id)}
        ByName == [p \in hit |-> NameRank(p.s.name)]
    IN  {[i \in 1..Len(f) |->
            [ts |-> f[i].r.ts, value |-> f[i].r.value, sensor_name |-> f[i].s.name]] :
         f \in OrderBy(hit, ByName)}

Select(sql, rows) ==
    [sql |-> sql, returning |-> FALSE, table |-> "none", row |-> <<>>, rows |-> rows]

\* get_sensor_readings(sensor_id, limit); rows is the order the engine chose.
\* "if not results: return pd.DataFrame()" is the empty sequence.
get_sensor_readings(kind, d, rows) ==
    ExecuteQuery(kind, d, Select("SELECT", rows))

\* get_latest_readings(): the statement text starts with WITH.
get_latest_readings(kind, d, rows) ==
    ExecuteQuery(kind, d, Select("WITH", rows))

CountOf(kind, d, table) ==
    LET r == ExecuteQuery(kind, d, Select("SELECT", <<Cardinality(d.working[table])>>))
    IN  IF r.ret # <<>> THEN r.ret[1] ELSE 0

MaxTsOf(kind, d) ==
    LET ts == {r.ts : r \in d.working.reading}
        m == IF ts = {} THEN Null ELSE CHOOSE t \in ts : \A u \in ts : u <= t
        r == ExecuteQuery(kind, d, Select("SELECT", <<m>>))
    IN  IF r.ret # <<>> /\ r.ret[1] # Null THEN r.ret[1] ELSE Null

MinTsOf(kind, d) ==
    LET ts == {r.ts : r \in d.working.reading}
        m == IF ts = {} THEN Null ELSE CHOOSE t \in ts : \A u \in ts : t <= u
        r == ExecuteQuery(kind, d, Select("SELECT", <<m>>))
    IN  IF r.ret # <<>> /\ r.ret[1] # Null THEN r.ret[1] ELSE Null

\* get_database_stats(): COUNT(*) of each table of the class's list, then
\* MAX(ts) (and, for PostgreSQL, MIN(ts)). Every statement is a SELECT.
get_database_stats(kind, d) ==
    LET tables == IF kind = "pg" THEN {"asset", "sensor", "reading"} ELSE TableNames
        counts == [t \in tables |-> CountOf(kind, d, t)]
    IN  [db |-> [d EXCEPT !.txn_start = TransactionStart(kind, d)],
         ret |-> IF kind = "pg"
                 THEN [counts |-> counts, last_reading |-> MaxTsOf(kind, d),
                       first_reading |-> MinTsOf(kind, d)]
                 ELSE [counts |-> counts, last_reading |-> MaxTsOf(kind, d)],
         exc |-> "none", stmt_exc |-> "none", executions |-> 1]

\* close(): the driver discards whatever the open transaction holds.
close(d) == [d EXCEPT !.open = FALSE, !.working = d.committed, !.txn_start = Null]

(***************************************************************************)
(* The state after construction, and one action per public operation.      *)
(***************************************************************************)
InitialDb(kind) ==
    LET t == IF kind = "pg" THEN PgInitialTables ELSE SqliteInitialTables
    IN  [open |-> TRUE, committed |-> t, working |-> t, nextId |-> FirstFreeId,
         txn_start |-> Null]

NoCall == [op |-> "none"]

\* ESP32Simulator.__init__; sensors is written here and nowhere else.
InitialSim ==
    [sensors |-> [DHT22 |-> [temp |-> 2500, humidity |-> 5500],
                  MPU6050 |-> [ax |-> 0, ay |-> 0, az |-> 1000],
                  LDR |-> [light |-> 5000]],
     running |-> FALSE, data_buffer |-> <<>>,
     pc |-> "idle", start_time |-> 0, end_time |-> 0, interval_seconds |-> 0]

InitDb ==
    /\ db = [c \in Conns |-> InitialDb(c)]
    /\ returned = [c \in Conns |-> {}]
    /\ call = NoCall

\* MLModelTrainer.__init__: self.models = {}.  r2 remembers, for each key,
\* the test R2 its training call returned; the object itself does not keep it.
InitialTrainer == [models |-> {}, r2 |-> [k \in {"linear", "rf"} |-> Null]]

InitRest ==
    /\ series = <<>>
    /\ sim = InitialSim
    /\ now = 0
    /\ trainer = InitialTrainer

Init ==
    /\ InitDb
    /\ InitRest
    /\ active \in {{c} : c \in Conns}

CanUse(c) == c \in active /\ db[c].open
CanCreate(c) == CanUse(c) /\ db[c].nextId < FirstFreeId + MaxNewRows

Record(c, op, args, r) ==
    [op |-> op, conn |-> c, args |-> args, ret |-> r.ret, exc |-> r.exc,
     stmt_exc |-> r.stmt_exc, executions |-> r.executions]

Apply(c, op, args, r) ==
    /\ db' = [db EXCEPT ![c] = r.db]
    /\ call' = Record(c, op, args, r)
    /\ UNCHANGED <<active, series, sim, now, trainer>>

\* Id arguments: PostgreSQL's schema file is not part of the sources, so a
\* DatabaseConnection is only offered parents that exist; a SQLiteConnection
\* is offered an id that names no row as well.
ParentArgs(c, table) ==
    {r.id : r \in db[c].working[table]} \cup (IF c = "sqlite" THEN {NoSuchId} ELSE {})

SensorArgs(c) == {s \in ParentArgs(c, "sensor") : s \notin {4, 5}}

ValueArgs(c) == {1} \cup (IF c = "sqlite" THEN {Null} ELSE {})

CreateAsset(c) ==
    /\ CanCreate(c)
    /\ Apply(c, "create_asset", <<>>,
             create_asset(c, db[c], "Linha de Producao Principal"))
    /\ UNCHANGED returned

CreateSensor(c) ==
    /\ CanCreate(c)
    /\ \E asset_id \in ParentArgs(c, "asset") :
          Apply(c, "create_sensor", <<asset_id>>,
                create_sensor(c, db[c], asset_id, "S_TEMP"))
    /\ UNCHANGED returned

CreateReading(c) ==
    /\ CanCreate(c)
    /\ \E sensor_id \in SensorArgs(c), ts \in 1..MaxTs, value \in ValueArgs(c) :
          LET r == create_reading(c, db[c], sensor_id, ts, value) IN
          /\ Apply(c, "create_reading", <<sensor_id, ts, value>>, r)
          /\ returned' = IF r.exc = "none"
                         THEN [returned EXCEPT ![c] = @ \cup {r.ret}]
                         ELSE returned

\* create_alert and create_prediction exist on SQLiteConnection only.
CreateAlert(c) ==
    /\ c = "sqlite"
    /\ CanCreate(c)
    /\ \E sensor_id \in SensorArgs(c), severity \in {"high", "urgent"} :
          Apply(c, "create_alert", <<sensor_id, severity>>,
                create_alert(c, db[c], sensor_id, "threshold", 35, 36, severity))
    /\ UNCHANGED returned

CreatePrediction(c) ==
    /\ c = "sqlite"
    /\ CanCreate(c)
    /\ \E sensor_id \in SensorArgs(c) :
          Apply(c, "create_prediction", <<sensor_id>>,
                create_prediction(c, db[c], sensor_id, 1))
    /\ UNCHANGED returned

GetSensorReadings(c) ==
    /\ CanUse(c)
    /\ \E sensor_id \in SensorArgs(c), limit \in {1, 100} :
       \E rows \in SensorReadingsRows(db[c].working, sensor_id, limit) :
          Apply(c, "get_sensor_readings", <<sensor_id, limit>>,
                get_sensor_readings(c, db[c], rows))
    /\ UNCHANGED returned

GetLatestReadings(c) ==
    /\ CanUse(c)
    /\ \E rows \in LatestReadingsRows(db[c].working) :
          Apply(c, "get_latest_readings", <<>>, get_latest_readings(c, db[c], rows))
    /\ UNCHANGED returned

GetDatabaseStats(c) ==
    /\ CanUse(c)
    /\ Apply(c, "get_database_stats", <<>>, get_database_stats(c, db[c]))
    /\ UNCHANGED returned

\* execute_query with a statement the engine rejects.
FailingQuery(c) ==
    /\ CanUse(c)
    /\ Apply(c, "execute_query", <<>>, ExecuteQuery(c, db[c], Select("BAD", <<>>)))
    /\ UNCHANGED returned

Close(c) ==
    /\ CanUse(c)
    /\ db' = [db EXCEPT ![c] = close(db[c])]
    /\ call' = [op |-> "close", conn |-> c]
    /\ UNCHANGED <<active, returned, series, sim, now, trainer>>

Next ==
    \E c \in Conns :
        \/ CreateAsset(c)
        \/ CreateSensor(c)
        \/ CreateReading(c)
        \/ CreateAlert(c)
        \/ CreatePrediction(c)
        \/ GetSensorReadings(c)
        \/ GetLatestReadings(c)
        \/ GetDatabaseStats(c)
        \/ FailingQuery(c)
        \/ Close(c)

Spec == Init /\ [][Next]_vars

(***************************************************************************)
(* The same calls applied to a DatabaseConnection and a SQLiteConnection   *)
(* that start with the same rows.                                          *)
(***************************************************************************)
InitEquiv ==
    /\ db = [c \in Conns |->
                [open |-> TRUE, committed |-> SqliteInitialTables,
                 working |-> SqliteInitialTables, nextId |-> FirstFreeId,
                 txn_start |-> Null]]
    /\ active = Conns
    /\ returned = [c \in Conns |-> {}]
    /\ call = NoCall
    /\ InitRest

CanCreateBoth == \A c \in Conns : CanCreate(c)

\* Id arguments that name a row in both sessions.
CommonIds(table) ==
    {i \in ParentArgs("pg", table) : i \in ParentArgs("sqlite", table) /\ i \notin {4, 5}}

ApplyBoth(op, args, rp, rs) ==
    /\ db' = [c \in Conns |-> IF c = "pg" THEN rp.db ELSE rs.db]
    /\ call' = [op |-> op, conn |-> "both", args |-> args,
                ret |-> [pg |-> rp.ret, sqlite |-> rs.ret],
                exc |-> [pg |-> rp.exc, sqlite |-> rs.exc]]
    /\ UNCHANGED <<active, returned, series, sim, now, trainer>>

BothCreateAsset ==
    /\ CanCreateBoth
    /\ ApplyBoth("create_asset", <<>>,
                 create_asset("pg", db["pg"], "Linha de Producao Principal"),
                 create_asset("sqlite", db["sqlite"], "Linha de Producao Principal"))

BothCreateSensor ==
    /\ CanCreateBoth
    /\ \E asset_id \in CommonIds("asset") :
          ApplyBoth("create_sensor", <<asset_id>>,
                    create_sensor("pg", db["pg"], asset_id, "S_TEMP"),
                    create_sensor("sqlite", db["sqlite"], asset_id, "S_TEMP"))

BothCreateReading ==
    /\ CanCreateBoth
    /\ \E sensor_id \in CommonIds("sensor"), ts \in 1..MaxTs :
          ApplyBoth("create_reading", <<sensor_id, ts, 1>>,
                    create_reading("pg", db["pg"], sensor_id, ts, 1),
                    create_reading("sqlite", db["sqlite"], sensor_id, ts, 1))

BothGetSensorReadings ==
    \E sensor_id \in CommonIds("sensor"), limit \in {1, 100} :
    \E rp \in SensorReadingsRows(db["pg"].working, sensor_id, limit),
       rs \in SensorReadingsRows(db["sqlite"].working, sensor_id, limit) :
          ApplyBoth("get_sensor_readings", <<sensor_id, limit>>,
                    get_sensor_readings("pg", db["pg"], rp),
                    get_sensor_readings("sqlite", db["sqlite"], rs))

BothGetLatestReadings ==
    \E rp \in LatestReadingsRows(db["pg"].working),
       rs \in LatestReadingsRows(db["sqlite"].working) :
          ApplyBoth("get_latest_readings", <<>>,
                    get_latest_readings("pg", db["pg"], rp),
                    get_latest_readings("sqlite", db["sqlite"], rs))

BothGetDatabaseStats ==
    ApplyBoth("get_database_stats", <<>>,
              get_database_stats("pg", db["pg"]),
              get_database_stats("sqlite", db["sqlite"]))

NextEquiv ==
    \/ BothCreateAsset
    \/ BothCreateSensor
    \/ BothCreateReading
    \/ BothGetSensorReadings
    \/ BothGetLatestReadings
    \/ BothGetDatabaseStats

SpecEquiv == InitEquiv /\ [][NextEquiv]_vars

(***************************************************************************)
(* Properties of the database layer.                                       *)
(***************************************************************************)
ReadingIds(tables) == {r.id : r \in tables.reading}

\* What the database holds for a caller of connection c: the session's view
\* while the connection is open, the committed rows once it is closed.
Stored(c) == IF db[c].open THEN db[c].working ELSE db[c].committed

\* C1: create_reading has no idempotency key: every successful call adds
\* exactly one row to the reading table, under a fresh id that it returns, with
\* the values passed, whether or not an identical row is already there.
C1_NoIdempotencyKey ==
    [][(call'.op = "create_reading" /\ call'.exc = "none") =>
        LET c == call'.conn
            before == db[c].working.reading
            after == db'[c].working.reading
        IN  /\ Cardinality(after) = Cardinality(before) + 1
            /\ before \subseteq after
            /\ call'.ret \notin {r.id : r \in before}
            /\ [id |-> call'.ret, sensor_id |-> call'.args[1],
                ts |-> call'.args[2], value |-> call'.args[3]] \in after]_vars

\* Two calls with identical (sensor_id, ts, value) have left two distinct rows.
C1_Witness ==
    /\ call.op = "create_reading"
    /\ call.exc = "none"
    /\ \E r1, r2 \in db[call.conn].working.reading :
          /\ r1.id # r2.id
          /\ r1.id = call.ret
          /\ r1.sensor_id = r2.sensor_id /\ r1.ts = r2.ts /\ r1.value = r2.value

\* C2: a reading whose create_reading call returned an id stays stored
\* whatever happens afterwards on the connection (a failing query and its
\* rollback, or close()), for DatabaseConnection as for SQLiteConnection.
C2_ReturnedReadingsStayStored ==
    \A c \in Conns : returned[c] \subseteq ReadingIds(Stored(c))

\* C3: when the statement raises, execute_query rolls back the open
\* transaction, re-raises the statement's exception, has executed the statement
\* once, and leaves every table with the content of the last commit.
C3_RollbackAndReraise ==
    [][(call'.op \notin {"none", "close"} /\ call'.conn \in Conns
            /\ call'.exc # "none") =>
        LET c == call'.conn
        IN  /\ call'.exc = call'.stmt_exc
            /\ call'.executions = 1
            /\ db'[c].committed = db[c].committed
            /\ db'[c].working = db[c].committed]_vars

\* A statement has failed while the transaction held an uncommitted reading,
\* and the reading is gone from the session's view.
C3_Witness ==
    /\ call.op = "execute_query"
    /\ call.exc = "ProgrammingError"
    /\ returned[call.conn] # {}
    /\ ~(returned[call.conn] \subseteq ReadingIds(db[call.conn].working))
    /\ db[call.conn].working = db[call.conn].committed

SameUpToOrder(s, t) ==
    /\ Len(s) = Len(t)
    /\ {s[i] : i \in 1..Len(s)} = {t[i] : i \in 1..Len(t)}

\* C7: the same sequence of calls applied to both classes, starting from the
\* same rows, yields the same committed tables and the same query results.
C7_ClassesEquivalent ==
    /\ \A t \in {"asset", "sensor", "reading"} :
          db["pg"].committed[t] = db["sqlite"].committed[t]
    /\ call.op \in {"get_sensor_readings", "get_latest_readings"} =>
          SameUpToOrder(call.ret["pg"], call.ret["sqlite"])
    /\ call.op = "get_database_stats" =>
          /\ \A t \in {"asset", "sensor", "reading"} :
                call.ret["pg"].counts[t] = call.ret["sqlite"].counts[t]
          /\ call.ret["pg"].last_reading = call.ret["sqlite"].last_reading

\* C9: referential integrity of the SQLite schema: every sensor names an
\* existing asset, every reading, alert and prediction an existing sensor.
C9_ReferentialIntegrity ==
    LET t == db["sqlite"].working
        assets == {a.id : a \in t.asset}
        sensors == {s.id : s \in t.sensor}
    IN  /\ \A s \in t.sensor : s.asset_id \in assets
        /\ \A r \in t.reading \cup t.alert \cup t.prediction : r.sensor_id \in sensors

(***************************************************************************)
(* MLModelTrainer: lag features and the temporal train/test split.         *)
(*                                                                         *)
(* series holds the rows of the sensor name in the order the engine        *)
(* returns them for ORDER BY ts DESC (rows of equal ts in the order the    *)
(* engine happens to choose). A timestamp is a whole number of hours, a    *)
(* value is the rank of its insertion, so every reading is told apart.     *)
(* roll3 is kept as the sum of the three values (three times the mean).    *)
(***************************************************************************)
MinTrainingRows == 10
DefaultLimit == 1000
NaN == Null

Reverse(s) == [i \in 1..Len(s) |-> s[Len(s) + 1 - i]]

\* SQLiteConnection.get_sensor_readings_by_name(sensor_name, limit):
\* ... WHERE s.name = ? ORDER BY r.ts DESC LIMIT ?
get_sensor_readings_by_name(rowsDesc, limit) == Limit(rowsDesc, limit)

\* sort_values('ts'): ascending. Applied to rows that arrive newest first it
\* yields the oldest first; rows of equal ts may come out in either order,
\* which the order of series already leaves open.
SortValuesTs(rows) == Reverse(rows)

\* A variant of the feature columns whose lag1 is shifted by two rows.
FeatureFrameLagOff(sorted) ==
    [i \in 1..Len(sorted) |->
        [ts |-> sorted[i].ts, value |-> sorted[i].value,
         lag1 |-> IF i > 2 THEN sorted[i - 2].value ELSE NaN,
         lag2 |-> IF i > 2 THEN sorted[i - 2].value ELSE NaN,
         roll3 |-> IF i > 2
                   THEN sorted[i].value + sorted[i - 1].value + sorted[i - 2].value
                   ELSE NaN,
         hour |-> sorted[i].ts % 24]]

\* lag1 = value.shift(1), lag2 = value.shift(2), roll3 = value.rolling(3).mean(),
\* hour = ts.dt.hour
FeatureFrame(sorted) ==
    [i \in 1..Len(sorted) |->
        [ts |-> sorted[i].ts, value |-> sorted[i].value,
         lag1 |-> IF i > 1 THEN sorted[i - 1].value ELSE NaN,
         lag2 |-> IF i > 2 THEN sorted[i - 2].value ELSE NaN,
         roll3 |-> IF i > 2
                   THEN sorted[i].value + sorted[i - 1].value + sorted[i - 2].value
                   ELSE NaN,
         hour |-> sorted[i].ts % 24]]

HasNaN(row) == NaN \in {row.value, row.lag1, row.lag2, row.roll3}

\* df.dropna().reset_index(drop=True)
DropNa(df) == SelectSeq(df, LAMBDA row : ~HasNaN(row))

Features(row) ==
    [lag1 |-> row.lag1, lag2 |-> row.lag2, roll3 |-> row.roll3, hour |-> row.hour]

\* prepare_training_data(sensor_name, limit). df is the frame X and y are cut
\* from; it keeps the ts of every row of X.
prepare_training_data(rowsDesc, limit) ==
    LET sensor_data == get_sensor_readings_by_name(rowsDesc, limit)
        df == DropNa(FeatureFrame(SortValuesTs(sensor_data)))
    IN  IF sensor_data = <<>> \/ Len(df) < MinTrainingRows
        THEN [exc |-> "ValueError", X |-> <<>>, y |-> <<>>, df |-> <<>>]
        ELSE [exc |-> "none",
              X |-> [i \in 1..Len(df) |-> Features(df[i])],
              y |-> [i \in 1..Len(df) |-> df[i].value],
              df |-> df]

\* A variant of the split that keeps test_size of the rows for training.
SplitIdxSwapped(n, test_tenths) == (n * test_tenths) \div 10

\* split_idx = int(len(X) * (1 - test_size)), test_size given in tenths.
SplitIdx(n, test_tenths) == (n * (10 - test_tenths)) \div 10

\* train_linear_model(sensor_name, test_size): the split and the sample counts
\* of the returned dict. The fitted coefficients and the metrics are left out.
train_linear_model(rowsDesc, test_tenths) ==
    LET p == prepare_training_data(rowsDesc, DefaultLimit)
        split_idx == SplitIdx(Len(p.X), test_tenths)
    IN  IF p.exc # "none"
        THEN [exc |-> p.exc]
        ELSE [exc |-> "none",
              train |-> SubSeq(p.df, 1, split_idx),
              test |-> SubSeq(p.df, split_idx + 1, Len(p.df)),
              train_samples |-> Len(SubSeq(p.X, 1, split_idx)),
              test_samples |-> Len(SubSeq(p.X, split_idx + 1, Len(p.X)))]

\* train_random_forest_model(sensor_name, test_size): the same preparation
\* and split as train_linear_model.
train_random_forest_model(rowsDesc, test_tenths) ==
    LET p == prepare_training_data(rowsDesc, DefaultLimit)
        split_idx == SplitIdx(Len(p.X), test_tenths)
    IN  IF p.exc # "none"
        THEN [exc |-> p.exc]
        ELSE [exc |-> "none",
              train |-> SubSeq(p.df, 1, split_idx),
              test |-> SubSeq(p.df, split_idx + 1, Len(p.df)),
              train_samples |-> Len(SubSeq(p.X, 1, split_idx)),
              test_samples |-> Len(SubSeq(p.X, split_idx + 1, Len(p.X)))]

\* self.models[f"{sensor_name}_linear"] = model, or ..._rf; r2 is the 'r2' of
\* the dict the training call returns.
Trained(t, key, r2) ==
    [models |-> t.models \cup {key}, r2 |-> [t.r2 EXCEPT ![key] = r2]]

\* get_best_model(sensor_name)
get_best_model(models) ==
    IF "linear" \in models /\ "rf" \in models THEN [exc |-> "none", ret |-> "rf"]
    ELSE IF "linear" \in models THEN [exc |-> "none", ret |-> "linear"]
    ELSE IF "rf" \in models THEN [exc |-> "none", ret |-> "rf"]
    ELSE [exc |-> "ValueError", ret |-> "none"]

\* The feature row of predict_next_value: df is the three newest of the ten
\* newest readings, oldest first; iloc[-2] and iloc[-3] count from the end.
\* roll3 is kept as the sum and the number of the values averaged.
PredictionFeatures(df) ==
    LET n == Len(df) IN
    [lag1 |-> IF n > 1 THEN df[n - 1].value ELSE df[n].value,
     lag2 |-> IF n > 2 THEN df[n - 2].value ELSE df[n].value,
     roll3 |-> [sum |-> IF n > 2 THEN df[n].value + df[n - 1].value + df[n - 2].value
                        ELSE IF n > 1 THEN df[n].value + df[n - 1].value
                        ELSE df[n].value,
                count |-> n]]

Tail3(s) == SubSeq(s, Max(1, Len(s) - 2), Len(s))

\* predict_next_value(sensor_name, model_type) up to model.predict: the key
\* of the model used and the features it is given.
predict_next_value(rowsDesc, models, model_type) ==
    LET best == get_best_model(models)
        model_key == IF model_type = "auto" THEN best.ret ELSE model_type
        recent_data == get_sensor_readings_by_name(rowsDesc, 10)
    IN  IF model_type = "auto" /\ best.exc # "none"
        THEN [exc |-> best.exc]
        ELSE IF model_key \notin models \/ recent_data = <<>>
        THEN [exc |-> "ValueError"]
        ELSE [exc |-> "none", model_used |-> model_key,
              features |-> PredictionFeatures(Tail3(SortValuesTs(recent_data)))]

InsertAt(s, pos, e) == SubSeq(s, 1, pos - 1) \o <<e>> \o SubSeq(s, pos, Len(s))

\* Rows that share their timestamp with the row before them.
Ties(s) == Cardinality({i \in 2..Len(s) : s[i].ts = s[i - 1].ts})

\* Rows inserted after a row that is newer than them.
Backfilled(s) ==
    Cardinality({i \in 1..Len(s) :
                    \E j \in 1..Len(s) : s[j].ts > s[i].ts /\ s[j].value < s[i].value})

HeadGroup(s) == Cardinality({i \in 1..Len(s) : s[i].ts = s[1].ts})

StoreRow(row) ==
    /\ Len(series) < MaxReadings
    /\ call' = [op |-> "create_reading", ts |-> row.ts]
    /\ UNCHANGED <<dbVars, sim, now, trainer>>

\* create_reading with a timestamp newer than every stored one.
StoreNewest ==
    LET row == [ts |-> IF series = <<>> THEN MaxOutOfOrder ELSE series[1].ts + 1,
                value |-> Len(series) + 1]
    IN  /\ StoreRow(row)
        /\ series' = <<row>> \o series

\* create_reading with the timestamp of the newest stored reading.
StoreTie ==
    /\ series # <<>>
    /\ Ties(series) + Backfilled(series) < MaxOutOfOrder
    /\ LET row == [ts |-> series[1].ts, value |-> Len(series) + 1]
       IN  /\ StoreRow(row)
           /\ \E pos \in 1..(HeadGroup(series) + 1) :
                 series' = InsertAt(series, pos, row)

\* create_reading with a timestamp older than every stored one.
StoreOldest ==
    /\ series # <<>>
    /\ Ties(series) + Backfilled(series) < MaxOutOfOrder
    /\ LET row == [ts |-> series[Len(series)].ts - 1, value |-> Len(series) + 1]
       IN  /\ StoreRow(row)
           /\ series' = series \o <<row>>

PrepareTrainingData ==
    /\ \E limit \in {MinTrainingRows + 2, DefaultLimit} :
          call' = [op |-> "prepare_training_data", limit |-> limit,
                   ret |-> prepare_training_data(series, limit)]
    /\ UNCHANGED <<dbVars, series, sim, now, trainer>>

\* The test R2 the training calls may report, in hundredths: the forest
\* scores below or above the linear model.
LinearR2Values == {70}
ForestR2Values == {50, 90}

TrainLinearModel ==
    /\ \E test_tenths \in {2, 5}, r2 \in LinearR2Values :
          LET ret == train_linear_model(series, test_tenths) IN
          /\ call' = [op |-> "train_linear_model", test_tenths |-> test_tenths,
                      ret |-> ret]
          /\ trainer' = IF ret.exc = "none" THEN Trained(trainer, "linear", r2)
                        ELSE trainer
    /\ UNCHANGED <<dbVars, series, sim, now>>

TrainRandomForestModel ==
    /\ \E test_tenths \in {2}, r2 \in ForestR2Values :
          LET ret == train_random_forest_model(series, test_tenths) IN
          /\ call' = [op |-> "train_random_forest_model", test_tenths |-> test_tenths,
                      ret |-> ret]
          /\ trainer' = IF ret.exc = "none" THEN Trained(trainer, "rf", r2)
                        ELSE trainer
    /\ UNCHANGED <<dbVars, series, sim, now>>

GetBestModel ==
    /\ call' = [op |-> "get_best_model", ret |-> get_best_model(trainer.models)]
    /\ UNCHANGED <<dbVars, series, sim, now, trainer>>

\* What model.predict may return.
PredictionValues == {1}

\* predict_next_value: after model.predict the prediction is stored through
\* get_sensor_id_by_name and create_prediction of the trainer's connection.
PredictNextValue ==
    /\ db["sqlite"].open
    /\ db["sqlite"].nextId < FirstFreeId + MaxNewRows
    /\ \E model_type \in {"auto", "linear", "rf"}, prediction \in PredictionValues,
          sensor_id \in SensorIdsByName(db["sqlite"].working, "S_TEMP") :
          LET ret == predict_next_value(series, trainer.models, model_type)
              d == IF ret.exc = "none"
                   THEN create_prediction("sqlite", db["sqlite"], sensor_id,
                                          prediction).db
                   ELSE db["sqlite"]
          IN  /\ db' = [db EXCEPT !["sqlite"] = d]
              /\ call' = [op |-> "predict_next_value", model_type |-> model_type,
                          ret |-> ret,
                          stored |-> Cardinality(d.working.prediction)
                                     - Cardinality(db["sqlite"].working.prediction)]
    /\ UNCHANGED <<active, returned, series, sim, now, trainer>>

InitML ==
    /\ InitDb
    /\ InitRest
    /\ active = {}

NextML ==
    \/ StoreNewest
    \/ StoreTie
    \/ StoreOldest
    \/ PrepareTrainingData
    \/ TrainLinearModel

SpecML == InitML /\ [][NextML]_vars

\* The trainer over readings stored in time order: both models are trained,
\* the best one is asked for and the next value is predicted.
NextPredict ==
    \/ StoreNewest
    \/ TrainLinearModel
    \/ TrainRandomForestModel
    \/ GetBestModel
    \/ PredictNextValue

SpecPredict == InitML /\ [][NextPredict]_vars

\* The readings prepare_training_data works on: the limit newest ones.
Fetched(limit) == Min(Len(series), limit)

\* Row i (oldest first) of the fetched readings.
Oldest(limit, i) == series[Fetched(limit) + 1 - i]

PreparedRowsMatch(ret, limit, rows) ==
    /\ Len(ret.X) = rows
    /\ Len(ret.y) = rows
    /\ \A i \in 1..rows :
          /\ ret.y[i] = Oldest(limit, i + 2).value
          /\ ret.X[i].lag1 = Oldest(limit, i + 1).value
          /\ ret.X[i].lag2 = Oldest(limit, i).value
          /\ Oldest(limit, 1).ts <= ret.df[i].ts
          /\ Oldest(limit, 2).ts <= ret.df[i].ts

\* C4 as stated: with n readings under the sensor name X and y have n - 2
\* rows, row i holding lag1 = value[i-1] and lag2 = value[i-2] of the
\* time-sorted series; ValueError when fewer than 10 rows remain or none exist.
C4_AllReadingsMinusTwo ==
    call.op = "prepare_training_data" =>
        LET n == Len(series) IN
        IF n = 0 \/ n - 2 < MinTrainingRows
        THEN call.ret.exc = "ValueError"
        ELSE /\ call.ret.exc = "none"
             /\ Len(call.ret.X) = n - 2
             /\ Len(call.ret.y) = n - 2

\* C4 as amended: the rows come from the limit newest readings, so with
\* m = min(n, limit) X and y have m - 2 rows, the two oldest of the m being
\* dropped, and ValueError is raised when m = 0 or m - 2 < 10.
C4_FetchedReadingsMinusTwo ==
    call.op = "prepare_training_data" =>
        LET m == Fetched(call.limit) IN
        IF m = 0 \/ m - 2 < MinTrainingRows
        THEN call.ret.exc = "ValueError"
        ELSE /\ call.ret.exc = "none"
             /\ PreparedRowsMatch(call.ret, call.limit, m - 2)

\* The limit has cut readings off, one reading was stored out of time order,
\* and the features were prepared.
C4_Witness ==
    /\ call.op = "prepare_training_data"
    /\ call.ret.exc = "none"
    /\ Len(series) > call.limit
    /\ Backfilled(series) > 0

SplitMatches(ret, n, k) ==
    /\ ret.train_samples = k
    /\ ret.test_samples = n - k
    /\ ret.train_samples + ret.test_samples = n
    /\ Len(ret.train) = k
    /\ Len(ret.test) = n - k
    /\ \A i \in 1..k : ret.train[i].value = Oldest(DefaultLimit, i + 2).value
    /\ \A i \in 1..(n - k) : ret.test[i].value = Oldest(DefaultLimit, k + i + 2).value
    /\ {ret.train[i].value : i \in 1..k} \cap {ret.test[i].value : i \in 1..(n - k)} = {}

\* C6 as stated: the training set is the first int(n * (1 - test_size))
\* prepared rows, the test set the rest, the sets are disjoint and cover the
\* rows, and every training row is older than every test row.
C6_TrainingStrictlyOlder ==
    (call.op = "train_linear_model" /\ call.ret.exc = "none") =>
        LET n == Fetched(DefaultLimit) - 2
            k == (n * (10 - call.test_tenths)) \div 10
        IN  /\ SplitMatches(call.ret, n, k)
            /\ \A i \in 1..k, j \in 1..(n - k) :
                  call.ret.train[i].ts < call.ret.test[j].ts

\* C6 as amended: the same, except that a training row is older than or of the
\* same timestamp as every test row.
C6_TemporalSplit ==
    (call.op = "train_linear_model" /\ call.ret.exc = "none") =>
        LET n == Fetched(DefaultLimit) - 2
            k == (n * (10 - call.test_tenths)) \div 10
        IN  /\ SplitMatches(call.ret, n, k)
            /\ \A i \in 1..k, j \in 1..(n - k) :
                  call.ret.train[i].ts <= call.ret.test[j].ts

\* A model was trained on a series in which the last training row and the
\* first test row carry the same timestamp.
C6_Witness ==
    /\ call.op = "train_linear_model"
    /\ call.ret.exc = "none"
    /\ call.ret.train # <<>> /\ call.ret.test # <<>>
    /\ call.ret.train[Len(call.ret.train)].ts = call.ret.test[1].ts

(***************************************************************************)
(* ESP32Simulator. Temperature, humidity and luminosity are held in        *)
(* hundredths (collect_data rounds them to two decimals); the acceleration *)
(* components are the integers read_mpu6050 returns.                       *)
(***************************************************************************)
TemperatureAlertAbove == 3500
HumidityAlertAbove == 8000
LuminosityAlertBelow == 1000
VibrationAlertAbove == 2000

Square(x) == x * x

\* np.sqrt(ax**2 + ay**2 + az**2) > limit, decided on the squares.
VibrationExceeds(data, limit) ==
    Square(data.accel_x) + Square(data.accel_y) + Square(data.accel_z) > Square(limit)

\* A variant of analyze_data whose temperature test includes the threshold.
analyze_data_inclusive(data) ==
    (IF data.temperature >= TemperatureAlertAbove THEN <<"temperature">> ELSE <<>>)
    \o (IF data.humidity > HumidityAlertAbove THEN <<"humidity">> ELSE <<>>)
    \o (IF data.luminosity < LuminosityAlertBelow THEN <<"luminosity">> ELSE <<>>)
    \o (IF VibrationExceeds(data, VibrationAlertAbove) THEN <<"vibration">> ELSE <<>>)

\* analyze_data(data): the alerts list, one append per test that fires.
analyze_data(data) ==
    (IF data.temperature > TemperatureAlertAbove THEN <<"temperature">> ELSE <<>>)
    \o (IF data.humidity > HumidityAlertAbove THEN <<"humidity">> ELSE <<>>)
    \o (IF data.luminosity < LuminosityAlertBelow THEN <<"luminosity">> ELSE <<>>)
    \o (IF VibrationExceeds(data, VibrationAlertAbove) THEN <<"vibration">> ELSE <<>>)

\* A variant of the loop test that still iterates at end_time.
LoopCondInclusive(running, t, end_time) == running /\ t <= end_time

\* while self.running and time.time() < end_time
LoopCond(running, t, end_time) == running /\ t < end_time

Reading(temperature, humidity, luminosity, accel) ==
    [temperature |-> temperature, humidity |-> humidity, luminosity |-> luminosity,
     accel_x |-> accel[1], accel_y |-> accel[2], accel_z |-> accel[3]]

\* Records collect_data can produce: a daytime one and a night one whose
\* luminosity is below the alert threshold.
CollectedRecords ==
    {Reading(2500, 5500, 7000, <<0, 0, 1000>>),
     Reading(2000, 6500, 800, <<500, 500, 1200>>)}

\* Records offered to analyze_data: values on and next to each threshold.
AnalyzedRecords ==
    {Reading(t, h, l, a) :
        t \in {TemperatureAlertAbove - 1, TemperatureAlertAbove, TemperatureAlertAbove + 1},
        h \in {HumidityAlertAbove, HumidityAlertAbove + 1},
        l \in {LuminosityAlertBelow - 1, LuminosityAlertBelow},
        a \in {<<0, 0, VibrationAlertAbove>>, <<1200, 1600, 0>>,
               <<1200, 1600, 1>>, <<0, 0, 0 - VibrationAlertAbove - 1>>}}

\* run_simulation(duration_minutes, interval_seconds) up to the loop.
RunSimulation ==
    /\ sim.pc \in {"idle", "done"}
    /\ now <= MaxClock
    /\ \E duration_minutes \in {0, 1}, interval_seconds \in {20, 30} :
          /\ sim' = [sim EXCEPT !.running = TRUE, !.pc = "loop",
                                !.start_time = now,
                                !.end_time = now + duration_minutes * 60,
                                !.interval_seconds = interval_seconds]
          /\ call' = [op |-> "run_simulation", duration_minutes |-> duration_minutes,
                      interval_seconds |-> interval_seconds]
    /\ UNCHANGED <<dbVars, series, now, trainer>>

\* One pass of the loop body: collect_data, analyze_data, append, display,
\* sleep. The clock moves on by the sleep and by what the body took.
LoopIteration ==
    /\ sim.pc = "loop"
    /\ LoopCond(sim.running, now, sim.end_time)
    /\ \E data \in CollectedRecords, elapsed \in {0, 1} :
          /\ sim' = [sim EXCEPT !.data_buffer = Append(@, data)]
          /\ now' = now + sim.interval_seconds + elapsed
          /\ call' = [op |-> "loop_iteration", started_at |-> now, data |-> data,
                      alerts |-> analyze_data(data)]
    /\ UNCHANGED <<dbVars, series, trainer>>

\* The loop test fails: run_simulation returns the buffer.
LoopExit ==
    /\ sim.pc = "loop"
    /\ ~LoopCond(sim.running, now, sim.end_time)
    /\ sim' = [sim EXCEPT !.pc = "done"]
    /\ call' = [op |-> "run_simulation_return", ret |-> sim.data_buffer]
    /\ UNCHANGED <<dbVars, series, now, trainer>>

AnalyzeData ==
    /\ sim.pc \in {"idle", "done"}
    /\ \E data \in AnalyzedRecords :
          call' = [op |-> "analyze_data", data |-> data, ret |-> analyze_data(data)]
    /\ UNCHANGED <<dbVars, series, sim, now, trainer>>

InitSim ==
    /\ InitDb
    /\ InitRest
    /\ active = {}

NextSim ==
    \/ RunSimulation
    \/ LoopIteration
    \/ LoopExit
    \/ AnalyzeData

\* The script is single-threaded and runs to completion: a loop step that can
\* be taken is taken.
SpecSim ==
    InitSim /\ [][NextSim]_vars /\ WF_vars(LoopIteration) /\ WF_vars(LoopExit)

IsIn(x, s) == \E i \in 1..Len(s) : s[i] = x

AlertOrder(kind) ==
    CASE kind = "temperature" -> 1
      [] kind = "humidity" -> 2
      [] kind = "luminosity" -> 3
      [] kind = "vibration" -> 4

\* C5: analyze_data is a set of fixed threshold comparisons: the temperature
\* alert iff temperature > 35.0, the humidity alert iff humidity > 80.0, the
\* luminosity alert iff luminosity < 10.0, the vibration alert iff the
\* magnitude of the acceleration > 2000; at most one alert of each kind, in
\* that order; and the simulator's buffer, sensors and running flag unchanged.
C5_ThresholdComparisons ==
    [][call'.op = "analyze_data" =>
        LET d == call'.data
            a == call'.ret
        IN  /\ IsIn("temperature", a) <=> d.temperature > 3500
            /\ IsIn("humidity", a) <=> d.humidity > 8000
            /\ IsIn("luminosity", a) <=> d.luminosity < 1000
            /\ IsIn("vibration", a) <=>
                  d.accel_x * d.accel_x + d.accel_y * d.accel_y
                      + d.accel_z * d.accel_z > 4000000
            /\ \A i, j \in 1..Len(a) : i < j => AlertOrder(a[i]) < AlertOrder(a[j])
            /\ sim'.data_buffer = sim.data_buffer
            /\ sim'.sensors = sim.sensors
            /\ sim'.running = sim.running]_vars

\* analyze_data has answered for a record whose temperature is exactly on the
\* threshold and whose acceleration has magnitude exactly 2000, after a
\* simulation has filled the buffer.
C5_Witness ==
    /\ call.op = "analyze_data"
    /\ call.data.temperature = 3500
    /\ call.data.accel_x = 1200 /\ call.data.accel_y = 1600 /\ call.data.accel_z = 0
    /\ call.data.humidity = 8001
    /\ call.ret = <<"humidity">>
    /\ sim.data_buffer # <<>>

\* C8: run_simulation terminates: once in the loop it reaches its return, no
\* pass of the loop starts at or after end_time, and it returns the buffer.
C8_SimulationTerminates ==
    /\ (sim.pc = "loop") ~> (sim.pc = "done")
    /\ [][call'.op = "loop_iteration" => now < sim.end_time]_vars
    /\ [][(sim.pc = "loop" /\ sim'.pc = "done") =>
            /\ now >= sim.end_time
            /\ call'.ret = sim.data_buffer]_vars

\* A simulation of one minute has returned a buffer with several records, the
\* clock having reached end_time exactly.
C8_Witness ==
    /\ sim.pc = "done"
    /\ sim.end_time = sim.start_time + 60
    /\ now = sim.end_time
    /\ Len(sim.data_buffer) >= 2

(***************************************************************************)
(* The alert steps of the pipeline scripts.                                *)
(***************************************************************************)
SensorNames == <<"S_TEMP", "S_HUMIDITY", "S_VIBRATION", "S_LIGHT">>

\* thresholds of run_pipeline_real.generate_alerts
RealThresholds(name) ==
    CASE name = "S_TEMP" -> [min |-> 20, max |-> 30]
      [] name = "S_HUMIDITY" -> [min |-> 40, max |-> 70]
      [] name = "S_VIBRATION" -> [min |-> 0, max |-> 1500]
      [] name = "S_LIGHT" -> [min |-> 20, max |-> 80]

\* thresholds of the anomaly step of run_pipeline_sqlite and run_pipeline_fast
SqliteThresholds(name) ==
    CASE name = "S_TEMP" -> 35
      [] name = "S_HUMIDITY" -> 80
      [] name = "S_VIBRATION" -> 2000
      [] name = "S_LIGHT" -> 10

NoAlert == [alert_type |-> "none"]

\* A variant of the classification that counts a value on a limit as a violation.
ClassifyInclusive(value, threshold) ==
    IF value <= threshold.min
    THEN [alert_type |-> "LOW_VALUE", threshold_value |-> threshold.min,
          severity |-> IF value * 10 < threshold.min * 8 THEN "medium" ELSE "low"]
    ELSE IF value >= threshold.max
    THEN [alert_type |-> "HIGH_VALUE", threshold_value |-> threshold.max,
          severity |-> IF value * 10 > threshold.max * 12 THEN "high" ELSE "medium"]
    ELSE NoAlert

\* The if/elif of generate_alerts and the threshold its INSERT passes:
\* threshold['max'] if 'HIGH' in alert_type else threshold['min'].
Classify(value, threshold) ==
    IF value < threshold.min
    THEN [alert_type |-> "LOW_VALUE", threshold_value |-> threshold.min,
          severity |-> IF value * 10 < threshold.min * 8 THEN "medium" ELSE "low"]
    ELSE IF value > threshold.max
    THEN [alert_type |-> "HIGH_VALUE", threshold_value |-> threshold.max,
          severity |-> IF value * 10 > threshold.max * 12 THEN "high" ELSE "medium"]
    ELSE NoAlert

\* SELECT r.id, r.value, s.id FROM reading r JOIN sensor s ON r.sensor_id = s.id
\* WHERE s.name = %s AND r.ts >= NOW() - INTERVAL '1 hour'
\* ORDER BY r.ts DESC LIMIT 10; timestamps and the clock count hours.
RecentByName(tables, name, clock) ==
    LET hit == {r \in tables.reading :
                   /\ \E s \in tables.sensor : s.id = r.sensor_id /\ s.name = name
                   /\ r.ts >= clock - 1}
    IN  {[i \in 1..Min(10, Len(f)) |->
            [name |-> name, value |-> f[i].value, sensor_id |-> f[i].sensor_id]] :
         f \in OrderBy(hit, [r \in hit |-> TsDesc(r)])}

\* The rows the four queries of generate_alerts return, in the order the loops
\* walk them.
ExaminedRows(tables, clock) ==
    {a \o b \o c \o d :
        a \in RecentByName(tables, SensorNames[1], clock),
        b \in RecentByName(tables, SensorNames[2], clock),
        c \in RecentByName(tables, SensorNames[3], clock),
        d \in RecentByName(tables, SensorNames[4], clock)}

PlainInsert(table, row) ==
    [sql |-> "INSERT", returning |-> FALSE, table |-> table, row |-> row, rows |-> <<>>]

RECURSIVE InsertAlerts(_, _)
\* The inner loop of generate_alerts: one INSERT INTO alert through
\* execute_query for every row whose value is classified.
InsertAlerts(d, rows) ==
    IF rows = <<>> THEN d
    ELSE LET e == Head(rows)
             a == Classify(e.value, RealThresholds(e.name))
         IN  IF a.alert_type = "none"
             THEN InsertAlerts(d, Tail(rows))
             ELSE InsertAlerts(
                      ExecuteQuery("pg", [d EXCEPT !.nextId = @ + 1],
                          PlainInsert("alert",
                              [id |-> d.nextId, sensor_id |-> e.sensor_id,
                               alert_type |-> a.alert_type,
                               threshold_value |-> a.threshold_value,
                               actual_value |-> e.value,
                               severity |-> a.severity])).db,
                      Tail(rows))

\* run_pipeline_real.generate_alerts(db_connection)
generate_alerts(d, rows) == [db |-> InsertAlerts(d, rows), ret |-> TRUE]

\* For every sensor name, iloc[0] of get_sensor_readings_by_name: the value of
\* a reading of that name with the newest ts, Null when there is none.
NewestValues(tables, name) ==
    LET hit == {r \in tables.reading :
                   \E s \in tables.sensor : s.id = r.sensor_id /\ s.name = name}
        top == {r \in hit : \A q \in hit : q.ts <= r.ts}
    IN  IF hit = {} THEN {Null} ELSE {r.value : r \in top}

RECURSIVE ThresholdAlerts(_, _, _, _, _)
\* The loop shared by the anomaly step of run_pipeline_sqlite and the alert
\* step of run_pipeline_fast: an alert when the newest value of the sensor
\* name exceeds the threshold.
ThresholdAlerts(d, names, last, ids, always_high) ==
    IF names = <<>> THEN d
    ELSE LET name == Head(names)
             threshold == SqliteThresholds(name)
             value == last[name]
             severity == IF always_high \/ value * 10 > threshold * 15
                         THEN "high" ELSE "medium"
         IN  IF value # Null /\ value > threshold /\ ids[name] # Null
             THEN ThresholdAlerts(
                      create_alert("sqlite", d, ids[name], "threshold", threshold,
                                   value, severity).db,
                      Tail(names), last, ids, always_high)
             ELSE ThresholdAlerts(d, Tail(names), last, ids, always_high)

SqliteSensorNames == <<"S_TEMP", "S_HUMIDITY", "S_LIGHT", "S_VIBRATION">>

NameSet == {SensorNames[i] : i \in 1..Len(SensorNames)}

\* Every way of taking one of choices[name] for each sensor name.
PerName(choices) ==
    {[n \in NameSet |->
        CASE n = SensorNames[1] -> a
          [] n = SensorNames[2] -> b
          [] n = SensorNames[3] -> c
          [] n = SensorNames[4] -> e] :
     a \in choices[SensorNames[1]], b \in choices[SensorNames[2]],
     c \in choices[SensorNames[3]], e \in choices[SensorNames[4]]}

\* Rows of a table over the two databases, which the bounds cap together.
StoredIn(table) ==
    Cardinality(db["pg"].working[table]) + Cardinality(db["sqlite"].working[table])

\* The hours at which the pipelines store readings, and the hours at which
\* generate_alerts runs: at the later one the readings of the earliest hour
\* are more than an hour old.
ReadingHours == {1, 2}
AlertHours == {2, 3}

\* store_data_in_database: INSERT INTO reading without RETURNING.
StoreReadingPg ==
    /\ CanUse("pg")
    /\ StoredIn("reading") < MaxAlertReadings
    /\ \E sv \in {<<2, 19>>, <<2, 20>>, <<2, 30>>, <<2, 31>>, <<4, 0>>},
          ts \in ReadingHours :
          LET d == db["pg"]
              r == ExecuteQuery("pg", [d EXCEPT !.nextId = @ + 1],
                       PlainInsert("reading",
                           [id |-> d.nextId, sensor_id |-> sv[1], ts |-> ts,
                            value |-> sv[2]]))
          IN  Apply("pg", "store_data_in_database", <<sv[1], ts, sv[2]>>, r)
    /\ UNCHANGED returned

GenerateAlerts ==
    /\ CanUse("pg")
    /\ StoredIn("alert") < MaxAlertRows
    /\ \E clock \in AlertHours :
       \E rows \in ExaminedRows(db["pg"].working, clock) :
          LET r == generate_alerts(db["pg"], rows) IN
          /\ db' = [db EXCEPT !["pg"] = r.db]
          /\ call' = [op |-> "generate_alerts", conn |-> "pg", clock |-> clock,
                      ret |-> r.ret]
    /\ UNCHANGED <<active, returned, series, sim, now, trainer>>

StoreReadingSqlite ==
    /\ CanUse("sqlite")
    /\ StoredIn("reading") < MaxAlertReadings
    /\ \E sv \in {<<2, 35>>, <<2, 36>>, <<2, 53>>, <<4, 11>>},
          ts \in ReadingHours :
          Apply("sqlite", "create_reading", <<sv[1], ts, sv[2]>>,
                create_reading("sqlite", db["sqlite"], sv[1], ts, sv[2]))
    /\ UNCHANGED returned

SqliteAlertStep(op, always_high) ==
    /\ CanUse("sqlite")
    /\ StoredIn("alert") < MaxAlertRows
    /\ \E last \in PerName([n \in NameSet |-> NewestValues(db["sqlite"].working, n)]),
          ids \in PerName([n \in NameSet |-> SensorIdsByName(db["sqlite"].working, n)]) :
          /\ db' = [db EXCEPT !["sqlite"] =
                        ThresholdAlerts(db["sqlite"], SqliteSensorNames, last, ids,
                                        always_high)]
          /\ call' = [op |-> op, conn |-> "sqlite"]
    /\ UNCHANGED <<active, returned, series, sim, now, trainer>>

\* run_pipeline_sqlite.main, step 6
DetectAnomalies == SqliteAlertStep("detect_anomalies", FALSE)

\* run_pipeline_fast.main, step 5
CreateExampleAlerts == SqliteAlertStep("create_example_alerts", TRUE)

NextAlert ==
    \/ StoreReadingPg
    \/ GenerateAlerts
    \/ StoreReadingSqlite
    \/ DetectAnomalies
    \/ CreateExampleAlerts

\* The PostgreSQL pipeline and the SQLite pipelines each run against their own
\* database.
InitAlert ==
    /\ InitDb
    /\ InitRest
    /\ active = Conns

SpecAlert == InitAlert /\ [][NextAlert]_vars

(***************************************************************************)
(* Properties of the alert steps                                           *)
(***************************************************************************)
\* The names of the sensors a row points at.
NamesOf(tables, sensor_id) == {s.name : s \in {x \in tables.sensor : x.id = sensor_id}}

\* The readings generate_alerts examines at the given clock: those of the
\* last hour under one of the four sensor names.
RecentReadings(tables, clock) ==
    {r \in tables.reading :
        /\ r.ts >= clock - 1
        /\ NamesOf(tables, r.sensor_id) \cap NameSet # {}}

OutOfRange(tables, r) ==
    \E n \in NamesOf(tables, r.sensor_id) :
        r.value < RealThresholds(n).min \/ r.value > RealThresholds(n).max

IsViolationAlert(tables, a) ==
    \E n \in NamesOf(tables, a.sensor_id) :
        \/ /\ a.alert_type = "LOW_VALUE"
           /\ a.threshold_value = RealThresholds(n).min
           /\ a.actual_value < RealThresholds(n).min
        \/ /\ a.alert_type = "HIGH_VALUE"
           /\ a.threshold_value = RealThresholds(n).max
           /\ a.actual_value > RealThresholds(n).max

GenerateAlertsStoresViolations ==
    call'.op = "generate_alerts" =>
        LET tables == db["pg"].working
            new == db'["pg"].working.alert \ tables.alert
            examined == RecentReadings(tables, call'.clock)
            violating == {r \in examined : OutOfRange(tables, r)}
        IN  /\ tables.alert \subseteq db'["pg"].working.alert
            /\ db'["pg"].committed.alert = db'["pg"].working.alert
            /\ \A a \in new : IsViolationAlert(tables, a)
            /\ Cardinality(new) = Cardinality(violating)
            /\ \A r \in examined :
                  OutOfRange(tables, r) <=>
                      \E a \in new : /\ a.sensor_id = r.sensor_id
                                     /\ a.actual_value = r.value

SqliteAlertsExceedThreshold ==
    \A a \in db["sqlite"].working.alert \cup db["sqlite"].committed.alert :
        /\ a.actual_value > a.threshold_value
        /\ NamesOf(db["sqlite"].working, a.sensor_id) # {}

JoinedReadings(tables) ==
    {[ts |-> p[1].ts, value |-> p[1].value, sensor_id |-> p[1].sensor_id,
      sensor_name |-> p[2].name] :
        p \in {q \in tables.reading \X tables.sensor : q[1].sensor_id = q[2].id}}

IsLatest(tables, j) ==
    \A r \in tables.reading : r.sensor_id = j.sensor_id => r.ts <= j.ts

RowsOf(seq) == {seq[i] : i \in 1..Len(seq)}

\* C11: get_latest_readings returns, for every sensor that has a reading, the
\* reading(s) of that sensor with the maximum ts and no older reading of a
\* sensor; the result is empty only when there is no reading.  Stated for
\* SQLiteConnection and DatabaseConnection alike.
C11_LatestReadingOfEachSensor ==
    (call.op = "get_latest_readings" /\ call.conn \in Conns /\ call.exc = "none") =>
        LET tables == db[call.conn].working
            latest == {j \in JoinedReadings(tables) : IsLatest(tables, j)}
        IN  /\ RowsOf(call.ret) =
                  {[ts |-> j.ts, value |-> j.value, sensor_name |-> j.sensor_name] :
                      j \in latest}
            /\ (call.ret = <<>>) <=> (JoinedReadings(tables) = {})

(***************************************************************************)
(* DatabaseConnection over time: readings are stored as the clock (in      *)
(* days) advances, anomalies are queried and old readings are removed.     *)
(***************************************************************************)
\* A variant of the WHERE clause of get_anomalies that joins the two
\* threshold conditions with OR.
AnomalyConditionsEither(r, sensor_id, threshold_min, threshold_max) ==
    /\ r.sensor_id = sensor_id
    /\ \/ threshold_min = Null /\ threshold_max = Null
       \/ threshold_min # Null /\ r.value < threshold_min
       \/ threshold_max # Null /\ r.value > threshold_max

\* ' AND '.join(conditions): "sensor_id = %s", then "value < %s" when
\* threshold_min is given, then "value > %s" when threshold_max is given.
AnomalyConditions(r, sensor_id, threshold_min, threshold_max) ==
    /\ r.sensor_id = sensor_id
    /\ threshold_min # Null => r.value < threshold_min
    /\ threshold_max # Null => r.value > threshold_max

\* SELECT ts, value FROM reading WHERE ... ORDER BY ts DESC
AnomalyRows(tables, sensor_id, threshold_min, threshold_max) ==
    LET hit == {r \in tables.reading :
                   AnomalyConditions(r, sensor_id, threshold_min, threshold_max)}
    IN  {[i \in 1..Len(f) |-> [ts |-> f[i].ts, value |-> f[i].value]] :
            f \in OrderBy(hit, [r \in hit |-> TsDesc(r)])}

\* DatabaseConnection.get_anomalies(sensor_id, threshold_min, threshold_max)
get_anomalies(d, rows) == ExecuteQuery("pg", d, Select("SELECT", rows))

\* DELETE FROM reading WHERE ts < NOW() - INTERVAL 'days_to_keep days'
DeleteOldReadings(d, days_to_keep) ==
    LET cutoff == TransactionStart("pg", d) - days_to_keep
    IN  [sql |-> "DELETE", returning |-> FALSE, table |-> "reading", row |-> <<>>,
         rows |-> <<>>, where |-> [r \in d.working.reading |-> r.ts < cutoff]]

\* DatabaseConnection.cleanup_old_data(days_to_keep)
cleanup_old_data(d, days_to_keep) ==
    ExecuteQuery("pg", d, DeleteOldReadings(d, days_to_keep))

\* (sensor_id, value) of the readings stored: below, on and above the
\* threshold for one sensor, and a reading of another sensor.
ReadingArgs == {<<2, 0>>, <<2, 1>>, <<2, 2>>, <<3, 0>>}
ThresholdArgs == {Null, 1}
DaysToKeepArgs == {0, 1}

\* time passes between two calls
AdvanceClock ==
    /\ now < MaxDay
    /\ now' = now + 1
    /\ UNCHANGED <<db, active, returned, call, series, sim, trainer>>

\* create_reading(sensor_id, datetime.now(), value)
StoreReadingNow ==
    /\ CanCreate("pg")
    /\ \E sv \in ReadingArgs :
          Apply("pg", "create_reading", <<sv[1], now, sv[2]>>,
                create_reading("pg", db["pg"], sv[1], now, sv[2]))
    /\ UNCHANGED returned

GetAnomalies ==
    /\ CanUse("pg")
    /\ \E sensor_id \in {2}, threshold_min \in ThresholdArgs,
          threshold_max \in ThresholdArgs :
       \E rows \in AnomalyRows(db["pg"].working, sensor_id, threshold_min,
                               threshold_max) :
          Apply("pg", "get_anomalies", <<sensor_id, threshold_min, threshold_max>>,
                get_anomalies(db["pg"], rows))
    /\ UNCHANGED returned

CleanupOldData ==
    /\ CanUse("pg")
    /\ \E days_to_keep \in DaysToKeepArgs :
          /\ db' = [db EXCEPT !["pg"] = cleanup_old_data(db["pg"], days_to_keep).db]
          /\ call' = [op |-> "cleanup_old_data", conn |-> "pg",
                      days_to_keep |-> days_to_keep, at |-> now]
    /\ UNCHANGED <<active, returned, series, sim, now, trainer>>

InitPg ==
    /\ InitDb
    /\ InitRest
    /\ active = {"pg"}

NextPg ==
    \/ AdvanceClock
    \/ StoreReadingNow
    \/ GetAnomalies
    \/ CleanupOldData

SpecPg == InitPg /\ [][NextPg]_vars

NonIncreasingTs(rows) == \A i \in 1..(Len(rows) - 1) : rows[i].ts >= rows[i + 1].ts

\* C12: get_anomalies called with both thresholds returns the readings of the
\* sensor whose value is below threshold_min or above threshold_max, and only
\* those, newest first; with one threshold the readings violating it; with
\* none all readings of the sensor.
C12_AnomaliesOutsideThresholds ==
    (call.op = "get_anomalies" /\ call.exc = "none") =>
        LET expected == {r \in db["pg"].working.reading :
                            AnomalyConditionsEither(r, call.args[1], call.args[2],
                                                    call.args[3])}
        IN  /\ Len(call.ret) = Cardinality(expected)
            /\ RowsOf(call.ret) = {[ts |-> r.ts, value |-> r.value] : r \in expected}
            /\ NonIncreasingTs(call.ret)

\* C13: get_sensor_readings(sensor_id, limit), limit >= 1, returns
\* min(limit, n) rows for a sensor with n readings, each the (ts, value) of a
\* reading of that sensor, in non-increasing ts order, no omitted reading of
\* the sensor being newer than a returned one; the result is empty iff the
\* sensor has no readings.
C13_MostRecentReadingsOfSensor ==
    (call.op = "get_sensor_readings" /\ call.conn \in Conns /\ call.exc = "none") =>
        LET own == {r \in db[call.conn].working.reading : r.sensor_id = call.args[1]}
            limit == call.args[2]
        IN  /\ Len(call.ret) = Min(limit, Cardinality(own))
            /\ \E S \in SUBSET own : \E f \in Perms(S) :
                  /\ Len(call.ret) = Cardinality(S)
                  /\ \A i \in 1..Len(call.ret) :
                        call.ret[i] = [ts |-> f[i].ts, value |-> f[i].value]
                  /\ \A o \in own \ S, r \in S : o.ts <= r.ts
            /\ NonIncreasingTs(call.ret)
            /\ (call.ret = <<>>) <=> (own = {})

\* The sensor has two readings of different ts and get_sensor_readings with
\* limit 1 has returned the newer one.
C13_Witness ==
    /\ call.op = "get_sensor_readings"
    /\ call.conn = "sqlite"
    /\ call.args[2] = 1
    /\ Len(call.ret) = 1
    /\ \E r1, r2 \in db["sqlite"].working.reading :
          /\ r1.sensor_id = call.args[1] /\ r2.sensor_id = call.args[1]
          /\ r1.ts < r2.ts
          /\ call.ret[1].ts = r2.ts

(***************************************************************************)
(* Properties of model selection and prediction                            *)
(***************************************************************************)
\* C14: get_best_model returns the key of the model whose test R2 is higher
\* when both models of the sensor are trained, the only one when one exists,
\* and raises ValueError when none exists.
C14_BestModelByR2 ==
    call.op = "get_best_model" =>
        LET m == trainer.models IN
        IF m = {} THEN call.ret.exc = "ValueError"
        ELSE /\ call.ret.exc = "none"
             /\ call.ret.ret \in m
             /\ \A k \in m : trainer.r2[k] <= trainer.r2[call.ret.ret]

\* C15: with readings v1..vn in time order, n >= 3, predict_next_value feeds
\* the model lag1 = vn and lag2 = v(n-1), the features of time n+1, and a
\* successful call stores exactly one prediction row.
C15_FeaturesOfNextStep ==
    (call.op = "predict_next_value" /\ call.ret.exc = "none" /\ Len(series) >= 3) =>
        /\ call.ret.features.lag1 = series[1].value
        /\ call.ret.features.lag2 = series[2].value
        /\ call.stored = 1

(***************************************************************************)
(* run_pipeline_real.main: the steps of the PostgreSQL pipeline.           *)
(***************************************************************************)
\* The methods class ESP32Simulator defines.
SimulatorMethods ==
    {"__init__", "initialize_sensors", "read_dht22", "read_mpu6050", "read_ldr",
     "collect_data", "analyze_data", "display_data", "run_simulation",
     "save_data", "get_data_summary"}

\* The entries of sensors_data in collect_sensor_data, in the order the dict
\* display evaluates them.
SensorReads ==
    <<[sensor_name |-> "S_TEMP", method |-> "read_dht22_temperature"],
      [sensor_name |-> "S_HUMIDITY", method |-> "read_dht22_humidity"],
      [sensor_name |-> "S_VIBRATION", method |-> "read_vibration"],
      [sensor_name |-> "S_LIGHT", method |-> "read_light_sensor"]>>

\* collect_sensor_data(duration_minutes, interval_seconds): one pass of the
\* while loop, which is entered when end_time lies after start_time.  Looking
\* up a method the simulator does not define raises AttributeError.
collect_sensor_data(methods, duration_minutes, clock) ==
    IF ~(0 < duration_minutes * 60)
    THEN [exc |-> "none", ret |-> <<>>]
    ELSE IF \E i \in 1..Len(SensorReads) : SensorReads[i].method \notin methods
    THEN [exc |-> "AttributeError", ret |-> <<>>]
    ELSE [exc |-> "none",
          ret |-> [i \in 1..Len(SensorReads) |->
                     [sensor_name |-> SensorReads[i].sensor_name,
                      timestamp |-> clock, value |-> 1]]]

RECURSIVE InsertReadings(_, _, _)
\* The second loop of store_data_in_database: one INSERT INTO reading through
\* execute_query for every collected reading.
InsertReadings(d, data, sensor_ids) ==
    IF data = <<>> THEN d
    ELSE LET e == Head(data) IN
         InsertReadings(
             ExecuteQuery("pg", [d EXCEPT !.nextId = @ + 1],
                 PlainInsert("reading",
                     [id |-> d.nextId, sensor_id |-> sensor_ids[e.sensor_name],
                      ts |-> e.timestamp, value |-> e.value])).db,
             Tail(data), sensor_ids)

\* store_data_in_database(data, db_connection): False when a sensor name is
\* not in the sensor table.
store_data_in_database(d, data, sensor_ids) ==
    IF \E n \in NameSet : sensor_ids[n] = Null
    THEN [db |-> d, ret |-> FALSE]
    ELSE [db |-> InsertReadings(d, data, sensor_ids), ret |-> TRUE]

\* The names of the steps of main after the connection, in the order of the
\* calls in its try block.
PipelineSteps == <<"collect", "store", "alerts", "train", "report">>

\* main(): what it returns, the steps it started, the exception its except
\* clause caught, the readings handed to store_data_in_database and the
\* connection after the finally clause.  train_ml_models and
\* generate_summary_report write files, not the database; whether they
\* succeed is train_ok and report_ok.
main(d, connects, clock, sensor_ids, train_ok, report_ok) ==
    IF ~connects
    THEN {[ret |-> FALSE, connected |-> FALSE, steps |-> <<>>, exc |-> "none",
           handed |-> <<>>, db |-> d]}
    ELSE
    LET collected == collect_sensor_data(SimulatorMethods, 2, clock)
        done(ret, n, exc, handed, e) ==
            [ret |-> ret, connected |-> TRUE, steps |-> SubSeq(PipelineSteps, 1, n),
             exc |-> exc, handed |-> handed, db |-> close(e)]
    IN  IF collected.exc # "none"
        THEN {done(FALSE, 1, collected.exc, <<>>, d)}
        ELSE
        LET stored == store_data_in_database(d, collected.ret, sensor_ids) IN
        IF ~stored.ret
        THEN {done(FALSE, 2, "none", collected.ret, stored.db)}
        ELSE {LET alerted == generate_alerts(stored.db, rows) IN
              IF ~train_ok THEN done(FALSE, 4, "none", collected.ret, alerted.db)
              ELSE IF ~report_ok
              THEN done(FALSE, 5, "none", collected.ret, alerted.db)
              ELSE done(TRUE, 5, "none", collected.ret, alerted.db) :
              rows \in ExaminedRows(stored.db.working, clock)}

\* one run of the pipeline on the connection of the model
RunPipelineReal ==
    /\ CanUse("pg")
    /\ \E connects \in BOOLEAN, clock \in AlertHours, train_ok \in BOOLEAN,
          report_ok \in BOOLEAN,
          sensor_ids \in PerName([n \in NameSet |->
                                     SensorIdsByName(db["pg"].working, n)]) :
       \E r \in main(db["pg"], connects, clock, sensor_ids, train_ok, report_ok) :
          /\ db' = [db EXCEPT !["pg"] = r.db]
          /\ call' = [op |-> "main", conn |-> "pg", ret |-> r.ret,
                      connected |-> r.connected, steps |-> r.steps,
                      exc |-> r.exc, handed |-> r.handed]
    /\ UNCHANGED <<active, returned, series, sim, now, trainer>>

NextPipeline ==
    \/ StoreReadingPg
    \/ RunPipelineReal

SpecPipeline == InitPg /\ [][NextPipeline]_vars

\* C16: when the connection succeeds, main runs collect, store, alerts, train
\* and report in that order, each only after the earlier ones succeeded, and
\* returns True exactly when all five ran and none failed; the collection
\* step completes and its readings are handed to store_data_in_database.
C16_CollectionFeedsStore ==
    (call.op = "main" /\ call.connected) =>
        /\ \E n \in 1..Len(PipelineSteps) : call.steps = SubSeq(PipelineSteps, 1, n)
        /\ call.ret => call.steps = PipelineSteps
        /\ call.exc = "none"
        /\ Len(call.steps) >= 2
        /\ Len(call.handed) = Len(SensorReads)

(***************************************************************************)
(* The SQLite database file from its creation: the constructor of          *)
(* SQLiteConnection and the ingestion step of the SQLite pipelines.        *)
(***************************************************************************)
MaxPipelineRuns == 2    \* an ingestion step is not started with more assets

MainAssetName == "Linha de Producao Principal"

RECURSIVE CreateSensors(_, _, _)
\* One create_sensor per name, in order; ids are the ids returned.
CreateSensors(d, asset_id, names) ==
    IF names = <<>> THEN [db |-> d, ids |-> <<>>]
    ELSE LET r == create_sensor("sqlite", d, asset_id, Head(names))
             rest == CreateSensors(r.db, asset_id, Tail(names))
         IN  [db |-> rest.db, ids |-> <<r.ret>> \o rest.ids]

\* The inserts of _insert_initial_data: the asset, then the four sensors.
InsertInitialRows(d) ==
    LET a == create_asset("sqlite", d, MainAssetName)
    IN  CreateSensors(a.db, a.ret, SqliteSensorNames).db

\* A variant of _insert_initial_data without the test of COUNT(*).
insert_initial_data_always(d) == InsertInitialRows(d)

\* SQLiteConnection._insert_initial_data: return when SELECT COUNT(*) FROM
\* asset is above zero.
insert_initial_data(d) ==
    IF Cardinality(d.working.asset) > 0 THEN d ELSE InsertInitialRows(d)

\* SQLiteConnection.__init__: connect(), then create_tables(), whose CREATE
\* TABLE IF NOT EXISTS statements keep the rows of an existing file and which
\* ends with _insert_initial_data().
SQLiteConnectionInit(d) ==
    insert_initial_data([d EXCEPT !.open = TRUE, !.working = d.committed])

RECURSIVE LoadRecords(_, _, _)
\* The loop over esp32_data: four create_reading calls per record, in the
\* order temperature, humidity, luminosity, vibration.
LoadRecords(d, ids, data) ==
    IF data = <<>> THEN d
    ELSE LET e == Head(data)
             t == create_reading("sqlite", d, ids[1], e.datetime, e.temperature).db
             h == create_reading("sqlite", t, ids[2], e.datetime, e.humidity).db
             l == create_reading("sqlite", h, ids[3], e.datetime, e.luminosity).db
             v == create_reading("sqlite", l, ids[4], e.datetime, e.vibration).db
         IN  LoadRecords(v, ids, Tail(data))

\* What run_simulation hands to the ingestion: no record, or one record taken
\* at one of two times with one of two temperatures; vibration is the
\* magnitude of the acceleration.
Esp32Data ==
    {<<>>} \cup {<<[datetime |-> t, temperature |-> v, humidity |-> 1,
                    luminosity |-> 1, vibration |-> 1]>> : t \in {1, 2}, v \in {1, 2}}

PipelineScripts == {"run_pipeline_sqlite", "run_pipeline_fast"}

\* db = SQLiteConnection(db_path)
Construct ==
    /\ db' = [db EXCEPT !["sqlite"] = SQLiteConnectionInit(db["sqlite"])]
    /\ call' = [op |-> "SQLiteConnection", conn |-> "sqlite",
                assets_before |-> Cardinality(db["sqlite"].committed.asset)]
    /\ UNCHANGED <<active, returned, series, sim, now, trainer>>

\* Steps 2 and 3 of main in run_pipeline_sqlite.py and run_pipeline_fast.py,
\* the steps that write asset and sensor: SQLiteConnection("industrial_iot.db"),
\* create_asset, create_sensor for each entry of sensors_config, and the
\* readings of esp32_data.
Ingest(script) ==
    /\ Cardinality(db["sqlite"].committed.asset) <= MaxPipelineRuns
    /\ \E esp32_data \in Esp32Data :
       \E c \in {SQLiteConnectionInit(db["sqlite"])} :
       \E a \in {create_asset("sqlite", c, MainAssetName)} :
       \E s \in {CreateSensors(a.db, a.ret, SqliteSensorNames)} :
          /\ db' = [db EXCEPT !["sqlite"] = LoadRecords(s.db, s.ids, esp32_data)]
          /\ call' = [op |-> script, conn |-> "sqlite",
                      assets_before |-> Cardinality(db["sqlite"].committed.asset)]
    /\ UNCHANGED <<active, returned, series, sim, now, trainer>>

\* The database file does not exist yet.
InitSetup ==
    /\ db = [c \in Conns |->
                IF c = "pg" THEN InitialDb(c)
                ELSE [open |-> FALSE, committed |-> EmptyTables,
                      working |-> EmptyTables, nextId |-> 1, txn_start |-> Null]]
    /\ returned = [c \in Conns |-> {}]
    /\ call = NoCall
    /\ InitRest
    /\ active = {"sqlite"}

NextSetup ==
    \/ Construct
    \/ \E script \in PipelineScripts : Ingest(script)
    \/ Close("sqlite")

SpecSetup == InitSetup /\ [][NextSetup]_vars

(***************************************************************************)
(* Properties of the SQLite database file.                                 *)
(***************************************************************************)
NamedRows(rows, name) == {x \in rows : x.name = name}

OneAssetFourSensors(tables) ==
    /\ Cardinality(tables.asset) = 1
    /\ Cardinality(NamedRows(tables.asset, MainAssetName)) = 1
    /\ Cardinality(tables.sensor) = 4
    /\ \A n \in NameSet : Cardinality(NamedRows(tables.sensor, n)) = 1

\* C17: after the ingestion step of run_pipeline_sqlite.main or
\* run_pipeline_fast.main, on a fresh or a populated database, the sensor
\* table holds exactly one row for each of the four sensor names and the
\* asset table exactly one row named 'Linha de Producao Principal'.
C17_PipelinesCreateOnlyIfAbsent ==
    call.op \in PipelineScripts =>
        LET tables == db["sqlite"].committed IN
        /\ Cardinality(NamedRows(tables.asset, MainAssetName)) = 1
        /\ \A n \in NameSet : Cardinality(NamedRows(tables.sensor, n)) = 1

\* C18: a construction of SQLiteConnection on a file whose asset table is
\* empty inserts one asset and its four sensors, one per name, and nothing
\* else; a construction on a file whose asset table is not empty leaves
\* every table as it was.
C18_InitialDataAtMostOnce ==
    [][call'.op = "SQLiteConnection" =>
          LET before == db["sqlite"].committed
              after == db'["sqlite"].committed
          IN  IF before.asset = {}
              THEN /\ OneAssetFourSensors(after)
                   /\ \A s \in after.sensor : \E a \in after.asset : s.asset_id = a.id
                   /\ \A t \in TableNames \ {"asset", "sensor"} : after[t] = before[t]
              ELSE after = before]_vars

\* A second construction found the rows of the first, and they are still the
\* only ones.
C18_Witness ==
    /\ call.op = "SQLiteConnection"
    /\ call.assets_before = 1
    /\ OneAssetFourSensors(db["sqlite"].committed)
    /\ db["sqlite"].nextId = FirstFreeId

(***************************************************************************)
(* Properties of cleanup_old_data.                                         *)
(***************************************************************************)
\* C19: a call of cleanup_old_data(days_to_keep) at time now removes exactly
\* the readings with ts before now - days_to_keep, keeps every other reading,
\* leaves the other tables as they were and commits.
C19_CleanupRemovesExactlyOldReadings ==
    [][(call'.op = "cleanup_old_data" /\ now' = now) =>
          LET before == db["pg"].working
              after == db'["pg"].working
              cutoff == now - call'.days_to_keep
          IN  /\ after.reading = {r \in before.reading : r.ts >= cutoff}
              /\ \A t \in TableNames \ {"reading"} : after[t] = before[t]
              /\ db'["pg"].committed = after]_vars

====
